---- MODULE Spec2Model ----
(***************************************************************************)
(* Model of the Luxtronik heat-pump client: the session (luxtronik.go),    *)
(* the register map and the register descriptor codec (types file).        *)
(*                                                                         *)
(* Each session is driven by one caller (a goroutine) that invokes         *)
(* Connect, Close and the read operations one after the other; callers of  *)
(* different sessions run concurrently.  The controller is the             *)
(* environment: what a conn.Read returns (bytes, a short chunk, an error)  *)
(* is chosen nondeterministically at every read.                           *)
(***************************************************************************)
EXTENDS Integers, Sequences, FiniteSets, TLC

\* ------------------------------------------------------------------ bounds
NumSessions == 2        \* sessions (one caller goroutine each)
MapSize     == 2        \* slots of a register map
MaxReads    == 2        \* read operations started in the whole process
MaxDials    == 1        \* dial attempts per session
MaxSets     == 3        \* SetRaw calls made on the descriptor under test
MaxLen      == MapSize + 1   \* largest length word the controller sends

\* ------------------------------------------------------- program constants
ParametersWrite       == 3002
ParametersRead        == 3003
CalculationsRead      == 3004
VisibilitiesRead      == 3005
SocketReadSizeInteger == 4
SocketReadSizeChar    == 1

Sessions  == 1..NumSessions
Slots     == 0..(MapSize - 1)
ReadCmds  == {ParametersRead, CalculationsRead, VisibilitiesRead}

VARIABLES
    callers,     \* the sessions that have a caller
    ctl,         \* "any": the controllers send any reply; "steady": a fixed one
    conn,        \* c.conn per session: "nil", "open" or "closed" (non-nil, closed)
    dials,       \* number of net.DialTimeout calls per session
    globalLock,  \* holder of the process-wide mutex, 0 when free
    pc,          \* where the session's caller stands
    data,        \* the variadic request words of the running read
    txbuf,       \* chunks of the encoded request not yet written
    wire,        \* the chunks written to the sockets, in order (the latest ones)
    cmdEcho,     \* local cmd of readFromHeatPump
    length,      \* local length of readFromHeatPump
    rawValues,   \* local rawValues of readFromHeatPump (filled prefix)
    rxlog,       \* chunks the transport delivered during the running read
    pm,          \* the register map the caller supplies
    pm0,         \* the register map as it was when the running read began
    ret,         \* what the last call on the session returned
    reads,       \* read operations started so far in the process
    crashed,     \* "" or the reason of the panic that ended the process
    bm,          \* a register map that SetRawValues is called on directly
    bm0,         \* bm before the last SetRawValues call
    setArg,      \* argument of the last SetRawValues call
    setRet,      \* result of the last SetRawValues call
    base,        \* a descriptor that SetRaw is called on directly
    sets,        \* the values passed to SetRaw on base, in order
    desc,        \* a catalogue descriptor that ToHeatPump is called on
    encArg,      \* argument of the last ToHeatPump call
    encRet,      \* result of the last ToHeatPump call
    decRet       \* result of FromHeatPump since the last SetRaw

sessVars == <<callers, ctl, conn, dials, globalLock, pc, data, txbuf, wire, cmdEcho, length,
              rawValues, rxlog, pm, pm0, ret, reads, crashed>>
mapVars  == <<bm, bm0, setArg, setRet, base, sets>>
encVars  == <<desc, encArg, encRet, decRet>>
vars     == <<sessVars, mapVars, encVars>>

\* ------------------------------------------------------------- wire codec

\* uint32(v) of an int32: the identity on the non-negative values, the only
\* ones the read verbs send (3003, 3004, 3005 and the operand 0)
ToUint32(v) == v

\* binary.BigEndian.PutUint32 / binary.Write of one word: most significant byte first
BEBytes(v) ==
    << (v \div 16777216) % 256, (v \div 65536) % 256, (v \div 256) % 256, v % 256 >>

\* binary.BigEndian.Uint32 on a 4 byte slice
BigEndianUint32(b) ==
    b[1] * 16777216 + b[2] * 65536 + b[3] * 256 + b[4]

\* binary.Write(&buf, binary.BigEndian, data): the words in order, each big-endian
EncodeRequest(d) == [i \in 1..Len(d) |-> BEBytes(d[i])]

\* ------------------------------------------------------------ register map

\* Base{} as the constructors leave it: rawValue and prevRawValue zero
NewBase == [rawValue |-> 0, prevRawValue |-> 0]

\* a bank factory: dense slots 0..N-1, all zero
NewMap == [i \in Slots |-> NewBase]

\* SetRaw as it would be without the shift of the old raw value
SetRaw_NoShift(b, val) == [b EXCEPT !.rawValue = val]

\* Base.SetRaw
SetRaw(b, val) == [b EXCEPT !.rawValue = val, !.prevRawValue = b.rawValue]

\* Base.HasChanges
HasChanges(b) == b.prevRawValue # b.rawValue

\* DataTypeMap.SetRawValues: the error result
SetRawValuesErr(m, d) == Len(d) # Cardinality(DOMAIN m)

\* SetRawValues as it would be if it assigned before it compared the lengths
SetRawValues_AssignFirst(m, d) ==
    [i \in DOMAIN m |-> IF i + 1 <= Len(d) THEN SetRaw(m[i], d[i + 1]) ELSE m[i]]

\* DataTypeMap.SetRawValues: the map afterwards
SetRawValues(m, d) ==
    IF SetRawValuesErr(m, d) THEN m
    ELSE [i \in DOMAIN m |-> SetRaw(m[i], d[i + 1])]

\* ------------------------------------------------------ float32 arithmetic

RECURSIVE Pow2(_)
Pow2(n) == IF n = 0 THEN 1 ELSE 2 * Pow2(n - 1)

\* a float32 is m * 2^e with a 24-bit mantissa 2^23 <= m < 2^24, or zero
Float32(m, e) == [m |-> m, e |-> e]
Float32Zero   == Float32(0, 0)

\* IEEE 754 round to nearest, ties to even, of the mantissa q whose next bit
\* is roundBit and whose remaining bits are zero exactly when ~sticky
RoundNearestEven(q, roundBit, sticky, e) ==
    LET m == IF roundBit /\ (sticky \/ q % 2 = 1) THEN q + 1 ELSE q
    IN  IF m = Pow2(24) THEN Float32(Pow2(23), e + 1) ELSE Float32(m, e)

\* n steps of binary long division of r by d (r < 2d): the quotient bits q
\* and the doubled remainder r
RECURSIVE DivBits(_, _, _, _)
DivBits(r, d, n, q) ==
    IF n = 0 THEN [q |-> q, r |-> r]
    ELSE IF r >= d THEN DivBits(2 * (r - d), d, n - 1, 2 * q + 1)
    ELSE DivBits(2 * r, d, n - 1, 2 * q)

\* the float32 nearest to (x / y) * 2^e, for y <= x < 2y
Quotient32(x, y, e) ==
    LET b        == DivBits(x, y, 24, 0)
        roundBit == b.r >= y
        rest     == IF roundBit THEN b.r - y ELSE b.r
    IN  RoundNearestEven(b.q, roundBit, rest # 0, e - 23)

\* the float32 nearest to (x / y) * 2^e, for x > 0 and y > 0
RECURSIVE Scaled32(_, _, _)
Scaled32(x, y, e) ==
    IF x < y THEN Scaled32(2 * x, y, e - 1)
    ELSE IF x >= 2 * y THEN Scaled32(x, 2 * y, e + 1)
    ELSE Quotient32(x, y, e)

\* the float32 nearest to the fraction num / den: the conversion float32(x)
\* of an integer (den = 1) or of a float64 that holds num / den
Float32Of(num, den) == IF num = 0 THEN Float32Zero ELSE Scaled32(num, den, 0)

\* float32 division a / b, b # 0
Float32Div(a, b) ==
    IF a.m = 0 THEN Float32Zero
    ELSE IF a.m >= b.m THEN Quotient32(a.m, b.m, a.e - b.e)
    ELSE Quotient32(2 * a.m, b.m, a.e - b.e - 1)

\* float32 multiplication a * b: the 48-bit product of the mantissas is
\* hi * 2^24 + lo, computed from 12-bit halves
Float32Mul(a, b) ==
    IF a.m = 0 \/ b.m = 0 THEN Float32Zero
    ELSE LET h   == Pow2(12)
             ah  == a.m \div h
             al  == a.m % h
             bh  == b.m \div h
             bl  == b.m % h
             mid == ah * bl + al * bh
             low == (mid % h) * h + al * bl
             hi  == ah * bh + mid \div h + low \div Pow2(24)
             lo  == low % Pow2(24)
         IN  IF hi >= Pow2(23)
             THEN RoundNearestEven(hi, lo >= Pow2(23), lo % Pow2(23) # 0, a.e + b.e + 24)
             ELSE RoundNearestEven(2 * hi + lo \div Pow2(23), (lo % Pow2(23)) >= Pow2(22),
                                   lo % Pow2(22) # 0, a.e + b.e + 23)

\* the conversion uint32(f) of a float32: truncation towards zero
Float32ToUint32(f) ==
    IF f.m = 0 THEN 0
    ELSE IF f.e >= 0 THEN f.m * Pow2(f.e)
    ELSE IF 0 - f.e >= 24 THEN 0
    ELSE f.m \div Pow2(0 - f.e)

\* ------------------------------------------------- the register descriptors

\* values of Go's any handed to ToHeatPump and returned by FromHeatPump: an
\* integer, a string, a bool, a float32 (mantissa i, exponent e) and a
\* time.Duration of i seconds
IntVal(n) == [t |-> "int", i |-> n, s |-> ""]
StrVal(x) == [t |-> "str", i |-> 0, s |-> x]
BoolVal(b) == [t |-> "bool", i |-> IF b THEN 1 ELSE 0, s |-> ""]
F32Val(f) == [t |-> "f32", i |-> f.m, s |-> "", e |-> f.e]
DurationVal(n) == [t |-> "duration", i |-> n, s |-> ""]
NoValue   == [t |-> "none", i |-> 0, s |-> ""]

\* the run-time panic of an index expression out of range
Panic == [t |-> "panic", i |-> 0, s |-> "index out of range"]

\* results of ToHeatPump: the raw value and the error.  Raw values of 2^31
\* and above are written as the int32 with the same bits
Raw(n)    == [err |-> "nil", val |-> n]
Err(e)    == [err |-> e, val |-> 0]
NotCalled == [err |-> "none", val |-> 0]

\* the fields of Base that decide the codec; factorDen is 1/factor (10 for
\* 0.1), 0 for no factor; codes is empty for a nil code table
Descriptor(name, returnType, writeable, factorDen, custom, codes) ==
    [name |-> name, returnType |-> returnType, writeable |-> writeable,
     factorDen |-> factorDen, custom |-> custom, codes |-> codes,
     rawValue |-> 0, prevRawValue |-> 0]

NewEnergy            == Descriptor("energy", "Float32", FALSE, 10, "", << >>)
NewCelsius(w)        == Descriptor("celsius", "Float32", w, 10, "", << >>)
NewKelvin(w)         == Descriptor("kelvin", "Float32", w, 10, "", << >>)
NewUnknown           == Descriptor("none", "Uint32", FALSE, 0, "", << >>)
NewCount             == Descriptor("Count", "Uint32", FALSE, 0, "", << >>)
NewSeconds           == Descriptor("seconds", "Int64", FALSE, 0, "", << >>)
NewHours(w)          == Descriptor("hours", "Int64", w, 10, "", << >>)
NewHours2(w)         == Descriptor("hours2", "Int64", w, 0, "hours2", << >>)
NewMinutes(w)        == Descriptor("minutes", "Int64", w, 0, "", << >>)
NewMajorMinorVersion == Descriptor("MajorMinorVersion", "String", FALSE, 0, "version", << >>)
NewBool(w)           == Descriptor("Bool", "Bool", w, 0, "bool", << >>)

\* the enumerations; an index the source leaves out holds the empty string
NewHeatingMode(w) ==
    Descriptor("HeatingMode", "String", w, 0, "",
       <<"Automatic", "Second heatsource", "Party", "Holidays", "Off">>)

NewHotWaterMode(w) == [NewHeatingMode(w) EXCEPT !.name = "HotWaterMode"]

NewPoolMode(w) == [NewHeatingMode(w) EXCEPT !.codes[2] = "", !.name = "PoolMode"]

NewAccessLevel(w) ==
    Descriptor("AccessLevel", "String", w, 0, "",
       <<"user", "after sales service", "manufacturer", "installer">>)

NewMixedCircuitMode(w) ==
    Descriptor("MixedCircuitMode", "String", w, 0, "",
       <<"Automatic", "", "Party", "Holidays", "Off">>)

NewCoolingMode(w) ==
    Descriptor("CoolingMode", "String", w, 0, "",
       <<"Off", "Automatic">>)

NewSolarMode(w) == [NewCoolingMode(w) EXCEPT !.name = "SolarMode"]

NewVentilationMode(w) ==
    Descriptor("VentilationMode", "String", w, 0, "",
       <<"Automatic", "Party", "Holidays", "Off">>)

NewHeatpumpCode ==
    Descriptor("HeatpumpCode", "String", FALSE, 0, "",
       <<"ERC", "SW1", "SW2", "WW1", "WW2", "L1I", "L2I", "L1A", "L2A", "KSW", "KLW",
         "SWC", "LWC", "L2G", "WZS", "L1I407", "L2I407", "L1A407", "L2A407", "L2G407",
         "LWC407", "L1AREV", "L2AREV", "WWC1", "WWC2", "L2G404", "WZW", "L1S", "L1H",
         "L2H", "WZWD", "ERC", "", "", "", "", "", "", "", "", "WWB_20", "LD5", "LD7",
         "SW 37_45", "SW 58_69", "SW 29_56", "LD5 (230V)", "LD7 (230 V)", "LD9",
         "LD5 REV", "LD7 REV", "LD5 REV 230V", "LD7 REV 230V", "LD9 REV 230V",
         "SW 291", "LW SEC", "HMD 2", "MSW 4", "MSW 6", "MSW 8", "MSW 10", "MSW 12",
         "MSW 14", "MSW 17", "MSW 19", "MSW 23", "MSW 26", "MSW 30", "MSW 4S",
         "MSW 6S", "MSW 8S", "MSW 10S", "MSW 13S", "MSW 16S", "MSW2-6S", "MSW4-16",
         "TODO unknown 76", "TODO unknown 77", "TODO unknown 78", "TODO unknown 79",
         "TODO unknown 80", "TODO unknown 81", "TODO unknown 82">>)

NewBivalenceLevel ==
    Descriptor("BivalenceLevel", "String", FALSE, 0, "",
       <<"", "one compressor allowed to run", "two compressors allowed to run",
         "additional heat generator allowed to run">>)

NewOperationMode ==
    Descriptor("OperationMode", "String", FALSE, 0, "",
       <<"heating", "hot water", "swimming pool/solar", "evu", "defrost", "no request",
         "heating external source", "cooling">>)

NewSwitchoffFile ==
    Descriptor("SwitchoffFile", "String", FALSE, 0, "",
       <<"", "heatpump error", "system error", "evu lock",
         "operation mode second heat generator", "air defrost",
         "maximal usage temperature", "minimal usage temperature", "lower usage limit",
         "no request", "", "flow rate", "", "", "", "", "", "", "", "PV max">>)

NewMainMenuStatusLine1 ==
    Descriptor("MainMenuStatusLine1", "String", FALSE, 0, "",
       <<"heatpump running", "heatpump idle", "heatpump coming", "errorcode slot 0",
         "defrost", "waiting on LIN connection", "compressor heating up",
         "pump forerun">>)

NewMainMenuStatusLine2 ==
    Descriptor("MainMenuStatusLine2", "String", FALSE, 0, "",
       <<"since", "in">>)

NewMainMenuStatusLine3 ==
    Descriptor("MainMenuStatusLine3", "String", FALSE, 0, "",
       <<"heating", "no request", "grid switch on delay", "cycle lock", "lock time",
         "domestic water", "info bake out program", "defrost", "pump forerun",
         "thermal desinfection", "cooling", "", "swimming pool/solar",
         "heating external energy source", "domestic water external energy source", "",
         "flow monitoring", "second heat generator 1 active">>)

NewSecOperationMode ==
    Descriptor("SecOperationMode", "String", FALSE, 0, "",
       <<"off", "cooling", "heating", "fault", "transition", "defrost", "waiting",
         "waiting", "transition", "stop", "manual", "simulation start", "evu lock">>)

\* the enumerations whose constructor takes the writeable flag
WriteableEnums(w) ==
    {NewHeatingMode(w), NewHotWaterMode(w), NewPoolMode(w), NewAccessLevel(w),
     NewMixedCircuitMode(w), NewCoolingMode(w), NewSolarMode(w), NewVentilationMode(w)}

\* the enumerations that are never writeable
ReadOnlyEnums ==
    {NewHeatpumpCode, NewBivalenceLevel, NewOperationMode, NewSwitchoffFile,
     NewMainMenuStatusLine1, NewMainMenuStatusLine2, NewMainMenuStatusLine3,
     NewSecOperationMode}

Catalogue ==
    {NewEnergy, NewUnknown, NewCount, NewSeconds, NewMajorMinorVersion}
    \cup ReadOnlyEnums
    \cup UNION {{NewCelsius(w), NewKelvin(w), NewHours(w), NewHours2(w),
                 NewMinutes(w), NewBool(w)} \cup WriteableEnums(w) : w \in BOOLEAN}

Digit == <<"0", "1", "2", "3", "4", "5", "6", "7", "8", "9">>

\* decimal notation of a non-negative integer
RECURSIVE IntToStr(_)
IntToStr(n) == IF n < 10 THEN Digit[n + 1] ELSE IntToStr(n \div 10) \o Digit[(n % 10) + 1]

\* cast.ToString
CastToString(val) == IF val.t = "str" THEN val.s ELSE IntToStr(val.i)

\* cast.ToUint32: the number, the truncated float, 1 for true, 0 for a
\* string that is not a number
CastToUint32(val) ==
    CASE val.t \in {"int", "bool"} -> val.i
      [] val.t = "f32" -> Float32ToUint32(Float32(val.i, val.e))
      [] OTHER -> 0

\* cast.ToFloat32: the float itself, the float32 of a number, 1 for true, 0
\* for a string that is not a number
CastToFloat32(val) ==
    CASE val.t = "f32" -> Float32(val.i, val.e)
      [] val.t \in {"int", "bool"} -> Float32Of(val.i, 1)
      [] OTHER -> Float32Zero

\* cast.ToBool: false for 0 and for a string that is not a boolean
CastToBool(val) == val.t \in {"int", "bool"} /\ val.i # 0

\* the customFromHP closures of the constructors
customFromHP(kind, val) ==
    CASE kind = "hours2"  -> IntVal(1 + val \div 2)
      [] kind = "version" -> StrVal(IF val > 0
                                    THEN IntToStr(val \div 100) \o "." \o IntToStr(val % 100)
                                    ELSE "0")
      [] kind = "bool"    -> BoolVal(val = 1)

\* the customToHP closures of the constructors
customToHP(kind, val) ==
    CASE kind = "hours2"  -> Raw((CastToUint32(val) - 1) * 2)
      [] kind = "version" -> Err("ErrWritingNotAllowed")
      [] kind = "bool"    -> Raw(IF CastToBool(val) THEN 1 ELSE 0)

\* index of the first code equal to x, 0 when there is none
RECURSIVE FirstIndex(_, _, _)
FirstIndex(codes, x, i) ==
    IF i > Len(codes) THEN 0
    ELSE IF codes[i] = x THEN i
    ELSE FirstIndex(codes, x, i + 1)

\* the factor field: the float32 nearest to 1/factorDen
Factor(b) == Float32Of(1, b.factorDen)

\* roundFloat(float64(raw) * float64(factor), 3): the float64 product is
\* within a relative 2^-23 of raw/factorDen, so for raw below 2^20 math.Round
\* of its thousandfold is the integer raw * 1000/factorDen; the result is the
\* float32 of that many thousandths
roundFloat(raw, factorDen) == Float32Of(raw * (1000 \div factorDen), 1000)

\* Base.FromHeatPump
FromHeatPump(b) ==
    IF b.codes # << >> THEN
        IF b.rawValue > Len(b.codes) THEN StrVal("unknown code: " \o IntToStr(b.rawValue))
        ELSE IF b.rawValue + 1 \in DOMAIN b.codes THEN StrVal(b.codes[b.rawValue + 1])
        ELSE Panic
    ELSE IF b.custom # "" THEN customFromHP(b.custom, b.rawValue)
    ELSE IF b.name = "seconds" THEN DurationVal(b.rawValue)
    ELSE CASE b.returnType = "Uint32" ->
                IF b.factorDen # 0
                THEN IntVal(Float32ToUint32(Float32Mul(Float32Of(b.rawValue, 1), Factor(b))))
                ELSE IntVal(b.rawValue)
           [] b.returnType = "Float32" ->
                IF b.factorDen # 0 THEN F32Val(roundFloat(b.rawValue, b.factorDen))
                ELSE F32Val(Float32Of(b.rawValue, 1))
           [] OTHER -> IntVal(b.rawValue)

\* ToHeatPump as it would be if it returned the position in the code table
\* counted from 1
ToHeatPump_OneBased(b, val) ==
    IF ~b.writeable THEN Err("can't write non-writeable value")
    ELSE IF b.codes # << >> THEN
        LET idx == FirstIndex(b.codes, CastToString(val), 1) IN
        IF idx # 0 THEN Raw(idx) ELSE Err("can't find value in list of codes")
    ELSE IF b.custom # "" THEN customToHP(b.custom, IntVal(b.rawValue))
    ELSE CASE b.returnType = "Uint32" ->
                IF b.factorDen # 0
                THEN Raw(Float32ToUint32(Float32Div(CastToFloat32(val), Factor(b))))
                ELSE Raw(b.rawValue)
           [] b.returnType = "Float32" ->
                IF b.factorDen # 0
                THEN Raw(Float32ToUint32(Float32Div(CastToFloat32(val), Factor(b))))
                ELSE Raw(CastToUint32(val))
           [] OTHER -> Raw(b.rawValue)

\* Base.ToHeatPump
ToHeatPump(b, val) ==
    IF ~b.writeable THEN Err("can't write non-writeable value")
    ELSE IF b.codes # << >> THEN
        LET idx == FirstIndex(b.codes, CastToString(val), 1) IN
        IF idx # 0 THEN Raw(idx - 1) ELSE Err("can't find value in list of codes")
    ELSE IF b.custom # "" THEN customToHP(b.custom, IntVal(b.rawValue))
    ELSE CASE b.returnType = "Uint32" ->
                IF b.factorDen # 0
                THEN Raw(Float32ToUint32(Float32Div(CastToFloat32(val), Factor(b))))
                ELSE Raw(b.rawValue)
           [] b.returnType = "Float32" ->
                IF b.factorDen # 0
                THEN Raw(Float32ToUint32(Float32Div(CastToFloat32(val), Factor(b))))
                ELSE Raw(CastToUint32(val))
           [] OTHER -> Raw(b.rawValue)

\* ----------------------------------------------------------- the transport

\* what one conn.Read into a buffer of k bytes can return when the peer is
\* sending the bytes bs: an error, or the first n >= 1 bytes
ConnRead(bs, k) ==
    {[err |-> TRUE, bytes |-> << >>]} \cup
    {[err |-> FALSE, bytes |-> SubSeq(bs, 1, n)] : n \in 1..k}

\* Client.readUint32: one conn.Read, then binary.BigEndian.Uint32(buf[:n]),
\* which panics (index out of range) on a slice shorter than 4 bytes
readUint32(r) ==
    IF r.err THEN [kind |-> "err", val |-> 0]
    ELSE IF Len(r.bytes) < SocketReadSizeInteger THEN [kind |-> "panic", val |-> 0]
    ELSE [kind |-> "ok", val |-> BigEndianUint32(r.bytes)]

\* Client.readChar: one conn.Read of one byte
readChar(r) ==
    IF r.err THEN [kind |-> "err", val |-> 0]
    ELSE IF Len(r.bytes) # SocketReadSizeChar THEN [kind |-> "err", val |-> 0]
    ELSE [kind |-> "ok", val |-> r.bytes[1]]

\* the words and bytes a controller sends, stage by stage of the reply; a
\* steady controller echoes the verb and sends MapSize entries of one value
EchoWords(cmd) == IF ctl = "steady" THEN {cmd} ELSE ReadCmds
StatWords      == {0}
LenWords       == IF ctl = "steady" THEN {MapSize} ELSE 0..MaxLen
EntryWords     == IF ctl = "steady" THEN {258} ELSE {1, 258}
EntryChars     == IF ctl = "steady" THEN {1} ELSE {0, 1}

\* ------------------------------------------------------------- the session

InitCalls ==
    /\ globalLock = 0
    /\ pc = [s \in Sessions |-> "idle"]
    /\ data = [s \in Sessions |-> << >>]
    /\ txbuf = [s \in Sessions |-> << >>]
    /\ wire = << >>
    /\ cmdEcho = [s \in Sessions |-> 0]
    /\ length = [s \in Sessions |-> 0]
    /\ rawValues = [s \in Sessions |-> << >>]
    /\ rxlog = [s \in Sessions |-> << >>]
    /\ pm = [s \in Sessions |-> NewMap]
    /\ pm0 = [s \in Sessions |-> NewMap]
    /\ reads = 0
    /\ crashed = ""
    /\ bm = NewMap
    /\ bm0 = NewMap
    /\ setArg = << >>
    /\ setRet = "none"
    /\ base = NewBase
    /\ sets = << >>
    /\ encArg = NoValue
    /\ encRet = NotCalled
    /\ decRet = NoValue

\* the sessions as MustNewClient returns them
InitSessions ==
    /\ conn = [s \in Sessions |-> "nil"]
    /\ dials = [s \in Sessions |-> 0]
    /\ ret = [s \in Sessions |-> "new"]
    /\ InitCalls

\* one session in use, talking to a controller that may send anything
Init ==
    /\ callers = {1}
    /\ ctl = "any"
    /\ desc = NewUnknown
    /\ InitSessions

\* every session in use concurrently and connected (Connect has returned
\* on each), each talking to a steady controller
InitConc ==
    /\ callers = Sessions
    /\ ctl = "steady"
    /\ desc = NewUnknown
    /\ conn = [s \in Sessions |-> "open"]
    /\ dials = [s \in Sessions |-> 1]
    /\ ret = [s \in Sessions |-> "connectOk"]
    /\ InitCalls

Running == crashed = ""

locals == <<callers, ctl, data, txbuf, cmdEcho, length, rawValues, rxlog, pm0>>

\* Connect as it would be if it dialled whenever no open connection is held
Connect_Redial(s) ==
    /\ Running
    /\ s \in callers
    /\ pc[s] = "idle"
    /\ IF conn[s] # "open"
       THEN /\ dials[s] <= MaxDials
            /\ dials' = [dials EXCEPT ![s] = @ + 1]
            /\ \/ /\ conn' = [conn EXCEPT ![s] = "open"]
                  /\ ret' = [ret EXCEPT ![s] = "connectOk"]
               \/ /\ conn' = conn
                  /\ ret' = [ret EXCEPT ![s] = "connectErr"]
       ELSE /\ ret' = [ret EXCEPT ![s] = "connectOk"]
            /\ UNCHANGED <<conn, dials>>
    /\ UNCHANGED <<globalLock, pc, wire, pm, reads, crashed, locals>>
    /\ UNCHANGED <<mapVars, encVars>>

\* Client.Connect: dials only when c.conn is nil; a failed dial leaves it nil
Connect(s) ==
    /\ Running
    /\ s \in callers
    /\ pc[s] = "idle"
    /\ IF conn[s] = "nil"
       THEN /\ dials[s] < MaxDials
            /\ dials' = [dials EXCEPT ![s] = @ + 1]
            /\ \/ /\ conn' = [conn EXCEPT ![s] = "open"]
                  /\ ret' = [ret EXCEPT ![s] = "connectOk"]
               \/ /\ conn' = conn
                  /\ ret' = [ret EXCEPT ![s] = "connectErr"]
       ELSE /\ ret' = [ret EXCEPT ![s] = "connectOk"]
            /\ UNCHANGED <<conn, dials>>
    /\ UNCHANGED <<globalLock, pc, wire, pm, reads, crashed, locals>>
    /\ UNCHANGED <<mapVars, encVars>>

\* Client.Close: nil connection is a no-op, else conn.Close(), which fails
\* on a connection that is closed already; c.conn keeps the closed connection
Close(s) ==
    /\ Running
    /\ s \in callers
    /\ pc[s] = "idle"
    /\ CASE conn[s] = "nil"    -> /\ ret' = [ret EXCEPT ![s] = "closeOk"]
                                  /\ conn' = conn
         [] conn[s] = "open"   -> /\ ret' = [ret EXCEPT ![s] = "closeOk"]
                                  /\ conn' = [conn EXCEPT ![s] = "closed"]
         [] conn[s] = "closed" -> /\ ret' = [ret EXCEPT ![s] = "closeErr"]
                                  /\ conn' = conn
    /\ UNCHANGED <<dials, globalLock, pc, wire, pm, reads, crashed, locals>>
    /\ UNCHANGED <<mapVars, encVars>>

\* readParameters / readCalculations / readVisibilities: the call of
\* readFromHeatPump(pm, cmd, 0); len(data) is 2, so the first check passes
Read(s, cmd) ==
    /\ Running
    /\ s \in callers
    /\ pc[s] = "idle"
    /\ reads < MaxReads
    /\ reads' = reads + 1
    /\ data' = [data EXCEPT ![s] = <<cmd, 0>>]
    /\ txbuf' = [txbuf EXCEPT ![s] = << >>]
    /\ cmdEcho' = [cmdEcho EXCEPT ![s] = 0]
    /\ length' = [length EXCEPT ![s] = 0]
    /\ rawValues' = [rawValues EXCEPT ![s] = << >>]
    /\ rxlog' = [rxlog EXCEPT ![s] = << >>]
    /\ pm0' = [pm0 EXCEPT ![s] = pm[s]]
    /\ ret' = [ret EXCEPT ![s] = "reading"]
    /\ pc' = [pc EXCEPT ![s] = "lock"]
    /\ UNCHANGED <<callers, ctl, conn, dials, globalLock, wire, pm, crashed>>
    /\ UNCHANGED <<mapVars, encVars>>

\* netWrite as it would be without globalLock.Lock()
NetWriteLock_NoMutex(s) ==
    /\ Running
    /\ pc[s] = "lock"
    /\ CASE conn[s] = "nil" ->
              /\ crashed' = "nil connection"
              /\ UNCHANGED <<globalLock, pc, txbuf, ret>>
         [] conn[s] = "closed" ->
              /\ ret' = [ret EXCEPT ![s] = "errNetWrite"]
              /\ pc' = [pc EXCEPT ![s] = "idle"]
              /\ UNCHANGED <<globalLock, txbuf, crashed>>
         [] conn[s] = "open" ->
              /\ globalLock' = s
              /\ txbuf' = [txbuf EXCEPT ![s] = EncodeRequest(data[s])]
              /\ pc' = [pc EXCEPT ![s] = "write"]
              /\ UNCHANGED <<ret, crashed>>
    /\ UNCHANGED <<callers, ctl, conn, dials, data, wire, cmdEcho, length,
                   rawValues, rxlog, pm, pm0, reads>>
    /\ UNCHANGED <<mapVars, encVars>>

\* Client.netWrite up to the call of c.conn.Write: take the process-wide
\* lock and encode; a nil c.conn panics, a closed one makes Write fail
NetWriteLock(s) ==
    /\ Running
    /\ pc[s] = "lock"
    /\ globalLock = 0
    /\ CASE conn[s] = "nil" ->
              /\ crashed' = "nil connection"
              /\ UNCHANGED <<globalLock, pc, txbuf, ret>>
         [] conn[s] = "closed" ->
              /\ ret' = [ret EXCEPT ![s] = "errNetWrite"]
              /\ pc' = [pc EXCEPT ![s] = "idle"]
              /\ UNCHANGED <<globalLock, txbuf, crashed>>
         [] conn[s] = "open" ->
              /\ globalLock' = s
              /\ txbuf' = [txbuf EXCEPT ![s] = EncodeRequest(data[s])]
              /\ pc' = [pc EXCEPT ![s] = "write"]
              /\ UNCHANGED <<ret, crashed>>
    /\ UNCHANGED <<callers, ctl, conn, dials, data, wire, cmdEcho, length,
                   rawValues, rxlog, pm, pm0, reads>>
    /\ UNCHANGED <<mapVars, encVars>>

\* the wire keeps the chunks of the latest request and the one chunk before
Latest(w) == IF Len(w) > 2 THEN SubSeq(w, Len(w) - 1, Len(w)) ELSE w

\* c.conn.Write(buf.Bytes()) inside netWrite: the buffer goes out word by
\* word; the deferred Unlock runs when Write returns (done or failed)
ConnWrite(s) ==
    /\ Running
    /\ pc[s] = "write"
    /\ \/ /\ wire' = Latest(Append(wire, [s |-> s, k |-> Len(data[s]) - Len(txbuf[s]) + 1,
                                          w |-> Head(txbuf[s])]))
          /\ txbuf' = [txbuf EXCEPT ![s] = Tail(@)]
          /\ IF Len(txbuf[s]) = 1
             THEN /\ globalLock' = 0
                  /\ pc' = [pc EXCEPT ![s] = "readCmd"]
             ELSE UNCHANGED <<globalLock, pc>>
          /\ ret' = ret
       \/ /\ ret' = [ret EXCEPT ![s] = "errNetWrite"]
          /\ pc' = [pc EXCEPT ![s] = "idle"]
          /\ globalLock' = 0
          /\ UNCHANGED <<wire, txbuf>>
    /\ UNCHANGED <<callers, ctl, conn, dials, data, cmdEcho, length, rawValues,
                   rxlog, pm, pm0, reads, crashed>>
    /\ UNCHANGED <<mapVars, encVars>>

\* return of readFromHeatPump with the error r
Fail(s, r) ==
    /\ ret' = [ret EXCEPT ![s] = r]
    /\ pc' = [pc EXCEPT ![s] = "idle"]

readFrame == <<callers, ctl, conn, dials, globalLock, data, txbuf, wire, reads>>

\* readFromHeatPump: cmd, err := c.readUint32(); for the verbs without a
\* status word the comparison with data[0] follows at once
ReadCmd(s) ==
    /\ Running
    /\ pc[s] = "readCmd"
    /\ \E w \in EchoWords(data[s][1]) : \E r \in ConnRead(BEBytes(w), SocketReadSizeInteger) :
         LET res == readUint32(r) IN
         CASE res.kind = "panic" ->
                /\ crashed' = "short read"
                /\ UNCHANGED <<pc, ret, cmdEcho, rxlog>>
           [] res.kind = "err" ->
                /\ Fail(s, "errReadCmd")
                /\ UNCHANGED <<crashed, cmdEcho, rxlog>>
           [] res.kind = "ok" ->
                /\ cmdEcho' = [cmdEcho EXCEPT ![s] = res.val]
                /\ rxlog' = [rxlog EXCEPT ![s] = Append(@, r.bytes)]
                /\ crashed' = crashed
                /\ IF data[s][1] = CalculationsRead
                   THEN /\ pc' = [pc EXCEPT ![s] = "readStat"]
                        /\ ret' = ret
                   ELSE IF res.val # ToUint32(data[s][1])
                        THEN Fail(s, "errInvalidCmd")
                        ELSE /\ pc' = [pc EXCEPT ![s] = "readLen"]
                             /\ ret' = ret
    /\ UNCHANGED <<readFrame, length, rawValues, pm, pm0>>
    /\ UNCHANGED <<mapVars, encVars>>

\* readFromHeatPump, CalculationsRead only: stat, err = c.readUint32(); the
\* value is dropped, then cmd is compared with data[0]
ReadStat(s) ==
    /\ Running
    /\ pc[s] = "readStat"
    /\ \E w \in StatWords : \E r \in ConnRead(BEBytes(w), SocketReadSizeInteger) :
         LET res == readUint32(r) IN
         CASE res.kind = "panic" ->
                /\ crashed' = "short read"
                /\ UNCHANGED <<pc, ret, rxlog>>
           [] res.kind = "err" ->
                /\ Fail(s, "errReadStat")
                /\ UNCHANGED <<crashed, rxlog>>
           [] res.kind = "ok" ->
                /\ rxlog' = [rxlog EXCEPT ![s] = Append(@, r.bytes)]
                /\ crashed' = crashed
                /\ IF cmdEcho[s] # ToUint32(data[s][1])
                   THEN Fail(s, "errInvalidCmd")
                   ELSE /\ pc' = [pc EXCEPT ![s] = "readLen"]
                        /\ ret' = ret
    /\ UNCHANGED <<readFrame, cmdEcho, length, rawValues, pm, pm0>>
    /\ UNCHANGED <<mapVars, encVars>>

\* the tail of readFromHeatPump: return pm.SetRawValues(rawValues)
Finish(s, rv) ==
    /\ pm' = [pm EXCEPT ![s] = SetRawValues(pm[s], rv)]
    /\ ret' = [ret EXCEPT ![s] = IF SetRawValuesErr(pm[s], rv) THEN "errLength" ELSE "ok"]
    /\ pc' = [pc EXCEPT ![s] = "idle"]

\* readFromHeatPump: length, err := c.readUint32(); rawValues is allocated;
\* with length 0 the loop is skipped and SetRawValues follows at once
ReadLen(s) ==
    /\ Running
    /\ pc[s] = "readLen"
    /\ \E w \in LenWords : \E r \in ConnRead(BEBytes(w), SocketReadSizeInteger) :
         LET res == readUint32(r) IN
         CASE res.kind = "panic" ->
                /\ crashed' = "short read"
                /\ UNCHANGED <<pc, ret, rxlog, length, rawValues, pm>>
           [] res.kind = "err" ->
                /\ Fail(s, "errReadLen")
                /\ UNCHANGED <<crashed, rxlog, length, rawValues, pm>>
           [] res.kind = "ok" ->
                /\ length' = [length EXCEPT ![s] = res.val]
                /\ rawValues' = [rawValues EXCEPT ![s] = << >>]
                /\ rxlog' = [rxlog EXCEPT ![s] = Append(@, r.bytes)]
                /\ crashed' = crashed
                /\ IF res.val = 0
                   THEN Finish(s, << >>)
                   ELSE /\ pc' = [pc EXCEPT ![s] = "readEntry"]
                        /\ UNCHANGED <<ret, pm>>
    /\ UNCHANGED <<readFrame, cmdEcho, pm0>>
    /\ UNCHANGED <<mapVars, encVars>>

\* the loop round as it would be if every verb read its entries as words
EntryReads_AllWords(cmd) ==
    {[r |-> r, res |-> readUint32(r)] :
        r \in UNION {ConnRead(BEBytes(w), SocketReadSizeInteger) : w \in EntryWords}}

\* the entry a loop round of readFromHeatPump reads: one byte for
\* VisibilitiesRead (readChar), one word for the other verbs (readUint32)
EntryReads(cmd) ==
    IF cmd = VisibilitiesRead
    THEN {[r |-> r, res |-> readChar(r)] :
             r \in UNION {ConnRead(<<c>>, SocketReadSizeChar) : c \in EntryChars}}
    ELSE {[r |-> r, res |-> readUint32(r)] :
             r \in UNION {ConnRead(BEBytes(w), SocketReadSizeInteger) : w \in EntryWords}}

\* the loop as it would be if it stored each entry in its descriptor as soon
\* as it was read
ReadEntry_AssignEach(s) ==
    /\ Running
    /\ pc[s] = "readEntry"
    /\ \E e \in EntryReads(data[s][1]) :
         CASE e.res.kind = "panic" ->
                /\ crashed' = "short read"
                /\ UNCHANGED <<pc, ret, rxlog, rawValues, pm>>
           [] e.res.kind = "err" ->
                /\ Fail(s, "errReadEntry")
                /\ UNCHANGED <<crashed, rxlog, rawValues, pm>>
           [] e.res.kind = "ok" ->
                LET rv == Append(rawValues[s], e.res.val)
                    i  == Len(rawValues[s])
                IN
                /\ rawValues' = [rawValues EXCEPT ![s] = rv]
                /\ rxlog' = [rxlog EXCEPT ![s] = Append(@, e.r.bytes)]
                /\ crashed' = crashed
                /\ pm' = IF i \in DOMAIN pm[s]
                         THEN [pm EXCEPT ![s][i] = SetRaw(@, e.res.val)]
                         ELSE pm
                /\ IF Len(rv) = length[s]
                   THEN /\ ret' = [ret EXCEPT ![s] = IF SetRawValuesErr(pm[s], rv)
                                                     THEN "errLength" ELSE "ok"]
                        /\ pc' = [pc EXCEPT ![s] = "idle"]
                   ELSE UNCHANGED <<pc, ret>>
    /\ UNCHANGED <<readFrame, cmdEcho, length, pm0>>
    /\ UNCHANGED <<mapVars, encVars>>

\* readFromHeatPump: one round of the loop over i < length; after the last
\* round SetRawValues follows
ReadEntry(s) ==
    /\ Running
    /\ pc[s] = "readEntry"
    /\ \E e \in EntryReads(data[s][1]) :
         CASE e.res.kind = "panic" ->
                /\ crashed' = "short read"
                /\ UNCHANGED <<pc, ret, rxlog, rawValues, pm>>
           [] e.res.kind = "err" ->
                /\ Fail(s, "errReadEntry")
                /\ UNCHANGED <<crashed, rxlog, rawValues, pm>>
           [] e.res.kind = "ok" ->
                LET rv == Append(rawValues[s], e.res.val) IN
                /\ rawValues' = [rawValues EXCEPT ![s] = rv]
                /\ rxlog' = [rxlog EXCEPT ![s] = Append(@, e.r.bytes)]
                /\ crashed' = crashed
                /\ IF Len(rv) = length[s]
                   THEN Finish(s, rv)
                   ELSE UNCHANGED <<pc, ret, pm>>
    /\ UNCHANGED <<readFrame, cmdEcho, length, pm0>>
    /\ UNCHANGED <<mapVars, encVars>>

\* --------------------------------------- direct calls on maps and descriptors

\* the raw values used in direct calls
RawVals == {0, 7}
SetVals == {0, 7, 258}

\* the vectors handed to SetRawValues: every length up to one more than the map
Vectors == UNION {[1..n -> RawVals] : n \in 0..(MapSize + 1)}

\* a call of DataTypeMap.SetRawValues
BulkSet(d) ==
    /\ bm0' = bm
    /\ setArg' = d
    /\ setRet' = IF SetRawValuesErr(bm, d) THEN "err" ELSE "nil"
    /\ bm' = SetRawValues(bm, d)
    /\ UNCHANGED <<base, sets>>
    /\ UNCHANGED <<sessVars, encVars>>

\* a call of Base.SetRaw
SetRawOne(v) ==
    /\ Len(sets) < MaxSets
    /\ base' = SetRaw(base, v)
    /\ sets' = Append(sets, v)
    /\ UNCHANGED <<bm, bm0, setArg, setRet>>
    /\ UNCHANGED <<sessVars, encVars>>

InitMap ==
    /\ callers = {}
    /\ ctl = "any"
    /\ desc = NewUnknown
    /\ InitSessions

NextMap ==
    \/ \E d \in Vectors : BulkSet(d)
    \/ \E v \in SetVals : SetRawOne(v)

SpecMap == InitMap /\ [][NextMap]_vars

\* the values handed to ToHeatPump in direct calls
EncVals == {IntVal(0), IntVal(6), StrVal("Party"), StrVal("no such code")}

\* the raw values stored in b in direct calls: a sample of small values and
\* of code-table indexes, and for an enumeration the end of its table
RawInputs(b) ==
    IF b.codes = << >> THEN {0, 6, 10, 13}
    ELSE {r \in {0, 1, 2, 4, 6, 7, 8, 10, 13, 31, 32} : r < Len(b.codes)}
         \cup {Len(b.codes) - 1, Len(b.codes), Len(b.codes) + 1}

\* the values a caller hands to ToHeatPump of b: the ones above, the strings
\* of b's code table at the sampled indexes, and the value FromHeatPump(b)
\* returned
EncInputs(b) ==
    EncVals \cup {StrVal(b.codes[r + 1]) : r \in {x \in RawInputs(b) : x < Len(b.codes)}}
            \cup (IF decRet = NoValue THEN {} ELSE {decRet})

\* a call of Base.SetRaw on the catalogue descriptor
DescSetRaw(v) ==
    /\ decRet # Panic
    /\ desc' = SetRaw(desc, v)
    /\ encArg' = NoValue
    /\ encRet' = NotCalled
    /\ decRet' = NoValue
    /\ UNCHANGED <<sessVars, mapVars>>

\* a call of Base.FromHeatPump on the catalogue descriptor; a panic ends
\* the program
Decode ==
    /\ decRet # Panic
    /\ decRet' = FromHeatPump(desc)
    /\ UNCHANGED <<desc, encArg, encRet, sessVars, mapVars>>

\* a call of Base.ToHeatPump on the catalogue descriptor
Encode(val) ==
    /\ decRet # Panic
    /\ encArg' = val
    /\ encRet' = ToHeatPump(desc, val)
    /\ UNCHANGED <<desc, decRet, sessVars, mapVars>>

InitCodec ==
    /\ callers = {}
    /\ ctl = "any"
    /\ desc \in Catalogue
    /\ InitSessions

NextCodec ==
    \/ \E v \in RawInputs(desc) : DescSetRaw(v)
    \/ Decode
    \/ \E val \in EncInputs(desc) : Encode(val)

SpecCodec == InitCodec /\ [][NextCodec]_vars

Next ==
    \/ \E s \in Sessions : Connect(s)
    \/ \E s \in Sessions : Close(s)
    \/ \E s \in Sessions : \E cmd \in ReadCmds : Read(s, cmd)
    \/ \E s \in Sessions : NetWriteLock(s)
    \/ \E s \in Sessions : ConnWrite(s)
    \/ \E s \in Sessions : ReadCmd(s)
    \/ \E s \in Sessions : ReadStat(s)
    \/ \E s \in Sessions : ReadLen(s)
    \/ \E s \in Sessions : ReadEntry(s)

Spec == Init /\ [][Next]_vars

\* the callers of the connected sessions read concurrently
NextConc ==
    \/ \E s \in Sessions : \E cmd \in ReadCmds : Read(s, cmd)
    \/ \E s \in Sessions : NetWriteLock(s)
    \/ \E s \in Sessions : ConnWrite(s)
    \/ \E s \in Sessions : ReadCmd(s)
    \/ \E s \in Sessions : ReadStat(s)
    \/ \E s \in Sessions : ReadLen(s)
    \/ \E s \in Sessions : ReadEntry(s)

SpecConc == InitConc /\ [][NextConc]_vars

\* ------------------------------------------------- properties of the session

\* the last call on s was a read and it has returned
Returned(s) ==
    /\ pc[s] = "idle"
    /\ ret[s] \in {"ok", "errNetWrite", "errReadCmd", "errReadStat", "errInvalidCmd",
                   "errReadLen", "errReadEntry", "errLength"}

\* s has put a part of its request on the wire and not yet consumed its reply
InFlight(s) ==
    \/ pc[s] = "write" /\ Len(txbuf[s]) < Len(data[s])
    \/ pc[s] \in {"readCmd", "readStat", "readLen", "readEntry"}

\* C1: at most one request/response exchange is in flight in the process at
\* any instant: while one caller is between the first byte of its request and
\* the last byte of its reply, no other caller writes to or reads from a socket
OneExchangeInFlight ==
    Cardinality({s \in Sessions : InFlight(s)}) <= 1

\* s is inside c.conn.Write and has written some words of its request
MidWrite(s) == pc[s] = "write" /\ Len(txbuf[s]) < Len(data[s])

\* C2: a request goes out atomically: under the process-wide lock, command
\* word first and operand after it, each big-endian, with no chunk of another
\* caller in between, and never two socket writes at the same time
RequestsAtomic ==
    /\ \A s \in Sessions : pc[s] = "write" => globalLock = s
    /\ Cardinality({s \in Sessions : pc[s] = "write"}) <= 1
    /\ \A s \in Sessions :
         MidWrite(s) => /\ wire[Len(wire)].s = s
                        /\ wire[Len(wire)].k = Len(data[s]) - Len(txbuf[s])
    /\ Len(wire) = 1 => wire[1].k = 1
    /\ \A j \in 1..Len(wire) :
         /\ wire[j].k = 1 =>
              /\ wire[j].w[1] = 0 /\ wire[j].w[2] = 0
              /\ wire[j].w[3] * 256 + wire[j].w[4] \in ReadCmds
         /\ wire[j].k > 1 =>
              /\ wire[j].w = <<0, 0, 0, 0>>
              /\ j > 1 => /\ wire[j - 1].s = wire[j].s
                          /\ wire[j - 1].k = wire[j].k - 1

\* C2 witness: one caller has the first word of its request on the wire while
\* another caller, whose session is connected, waits for the lock
RequestsAtomicWitness ==
    \E s, t \in Sessions :
        /\ s # t
        /\ MidWrite(s)
        /\ pc[t] = "lock" /\ conn[t] = "open"

\* C3: a read on a session that is not connected fails with an error, without
\* a crash, without touching a socket and without a change of the register map
NotConnectedFailsCleanly ==
    /\ crashed # "nil connection"
    /\ \A s \in Sessions :
         (conn[s] # "open" /\ Returned(s)) =>
             /\ ret[s] = "errNetWrite"
             /\ pm[s] = pm0[s]

\* C4: Connect dials only when the session holds no connection; a held
\* connection stays as it is, except that Close closes an open one, and a
\* closed session never becomes connected again
ConnectOnlyWhenNil ==
    [][\A s \in Sessions :
          /\ dials'[s] # dials[s] => conn[s] = "nil"
          /\ conn[s] = "open" => conn'[s] \in {"open", "closed"}
          /\ conn[s] = "closed" => conn'[s] = "closed"]_vars

\* C4 witness: Connect was called on a closed session and returned no error,
\* and the session is still closed
ConnectOnlyWhenNilWitness ==
    \E s \in Sessions : conn[s] = "closed" /\ ret[s] = "connectOk" /\ dials[s] = 1

\* the command echo has been read and differs from the command sent
EchoMismatch(s) ==
    /\ Len(rxlog[s]) >= 1
    /\ rxlog[s][1] # BEBytes(data[s][1])

\* C5: a reply whose command echo differs from the command sent makes the
\* read fail with the invalid-command error and leaves the register map alone
EchoMismatchRejected ==
    \A s \in Sessions :
        (Returned(s) /\ EchoMismatch(s)) =>
            /\ ret[s] = "errInvalidCmd"
            /\ pm[s] = pm0[s]

\* number of words before the entries in the reply to cmd
HeaderWords(cmd) == IF cmd = CalculationsRead THEN 3 ELSE 2

\* the chunk that carries the raw value v as an entry of the reply to cmd
EntryChunk(cmd, v) == IF cmd = VisibilitiesRead THEN <<v>> ELSE BEBytes(v)

\* the reply read so far has its length word, and the word is n
LengthWordIs(s, n) ==
    /\ Len(rxlog[s]) >= HeaderWords(data[s][1])
    /\ rxlog[s][HeaderWords(data[s][1])] = BEBytes(n)

\* number of entries the transport delivered
EntriesRead(s) == Len(rxlog[s]) - HeaderWords(data[s][1])

\* the reply is echo, [status,] length MapSize and MapSize entries
WellFormedReply(s) ==
    /\ Len(rxlog[s]) = HeaderWords(data[s][1]) + MapSize
    /\ rxlog[s][1] = BEBytes(data[s][1])
    /\ LengthWordIs(s, MapSize)

\* C6, as stated: whenever the reply carried the MapSize entries of a good
\* reply but a length word different from the map size, the read fails with
\* a length mismatch
LengthMismatchAlways ==
    \A s \in Sessions :
        (/\ Returned(s)
         /\ EntriesRead(s) = MapSize
         /\ \E n \in 0..MaxLen : n # MapSize /\ LengthWordIs(s, n)) =>
            ret[s] = "errLength"

\* C6, amended: the reply is parsed as echo, [status for CalculationsRead,]
\* length, entries (a byte each for VisibilitiesRead, a big-endian word each
\* otherwise); a read succeeds exactly on a well-formed reply and then slot i
\* holds entry i; a reply with a length word n different from the map size
\* fails with a length mismatch once its n entries have been read
ReplyParsedInOrder ==
    \A s \in Sessions :
        /\ (Returned(s) /\ WellFormedReply(s)) => ret[s] = "ok"
        /\ ret[s] = "ok" =>
             /\ WellFormedReply(s)
             /\ \A i \in Slots :
                  /\ rxlog[s][HeaderWords(data[s][1]) + i + 1]
                        = EntryChunk(data[s][1], pm[s][i].rawValue)
                  /\ pm[s][i].prevRawValue = pm0[s][i].rawValue
        /\ \A n \in 0..MaxLen :
             (Returned(s) /\ n # MapSize /\ LengthWordIs(s, n) /\ EntriesRead(s) = n) =>
                 /\ ret[s] = "errLength"
                 /\ pm[s] = pm0[s]

\* C6 witness: a visibilities read has succeeded on a map that held values
\* from an earlier read, with different values in slots 0 and 1
ReplyParsedInOrderWitness ==
    \E s \in Sessions :
        /\ ret[s] = "ok"
        /\ data[s][1] = VisibilitiesRead
        /\ pm[s][0].rawValue # pm[s][1].rawValue
        /\ pm[s][0].prevRawValue # pm[s][1].prevRawValue

\* C7: a u32 that arrives in several short reads is collected by retrying;
\* a short read never crashes the process
ShortReadsRetried ==
    crashed # "short read"

\* ------------------------------------- properties of maps and descriptors

\* C8: SetRawValues with a vector of another length than the map fails and
\* leaves every descriptor as it was; with a vector of the map's length it
\* assigns vector[i] to slot i
BulkSetChecksLength ==
    setRet # "none" =>
        /\ setRet = "err" <=> Len(setArg) # MapSize
        /\ setRet = "err" => bm = bm0
        /\ setRet = "nil" =>
             \A i \in Slots : /\ bm[i].rawValue = setArg[i + 1]
                              /\ bm[i].prevRawValue = bm0[i].rawValue

\* C8 witness: a vector of the wrong length was rejected by a map that holds
\* values from an earlier call
BulkSetChecksLengthWitness ==
    /\ setRet = "err"
    /\ Len(setArg) = MapSize - 1
    /\ setArg[1] # bm[0].rawValue
    /\ bm[0].rawValue # bm[0].prevRawValue

\* C9, as stated: no change on a fresh descriptor and after the first SetRaw
\* of any value, a change after a second SetRaw with another value, no change
\* after a third SetRaw with the value of the second
ChangeDetection ==
    /\ Len(sets) = 0 => ~HasChanges(base)
    /\ Len(sets) = 1 => ~HasChanges(base)
    /\ (Len(sets) = 2 /\ sets[2] # sets[1]) => HasChanges(base)
    /\ (Len(sets) = 3 /\ sets[3] = sets[2]) => ~HasChanges(base)

\* C9, amended: after the first SetRaw the descriptor reports a change
\* exactly when the value set is not 0, the raw value of a fresh descriptor;
\* the rest as stated
ChangeDetectionFromZero ==
    /\ Len(sets) = 0 => ~HasChanges(base)
    /\ Len(sets) = 1 => (HasChanges(base) <=> sets[1] # 0)
    /\ (Len(sets) = 2 /\ sets[2] # sets[1]) => HasChanges(base)
    /\ (Len(sets) = 3 /\ sets[3] = sets[2]) => ~HasChanges(base)

\* C9 witness: three SetRaw calls, the second with another value than the
\* first, the third with the value of the second, none of them 0
ChangeDetectionWitness ==
    /\ Len(sets) = 3
    /\ sets[1] # 0 /\ sets[2] # 0
    /\ sets[2] # sets[1]
    /\ sets[3] = sets[2]

\* C10: ToHeatPump on a descriptor that is not writeable fails with
\* ErrWritingNotAllowed, whatever the value and whatever code table or
\* custom encoder the descriptor has
NonWriteableGivesSentinel ==
    (encRet # NotCalled /\ ~desc.writeable) => encRet.err = "ErrWritingNotAllowed"

\* the descriptor is an enumeration
Enumerated == desc.codes # << >>

\* FromHeatPump was called on the stored raw value i and i is the index of
\* a defined code string
DecodedDefined ==
    /\ decRet # NoValue
    /\ desc.rawValue + 1 \in DOMAIN desc.codes
    /\ desc.codes[desc.rawValue + 1] # ""

\* ToHeatPump was called with the defined code string at position i
EncodedCodeAt(i) ==
    /\ encRet # NotCalled
    /\ desc.codes[i] # ""
    /\ encArg = StrVal(desc.codes[i])

\* C11 as stated: for every enumeration and every defined code string s at
\* index i of its table, decoding raw i yields s and encoding s yields i,
\* tables that hold a string at more than one index included
CodeTableSymmetry ==
    Enumerated =>
        /\ DecodedDefined => decRet = StrVal(desc.codes[desc.rawValue + 1])
        /\ \A i \in DOMAIN desc.codes : EncodedCodeAt(i) => encRet = Raw(i - 1)

\* C11, amended: decoding raw i yields the string at index i in every
\* enumeration; encoding a defined string s yields its index i in the
\* writeable enumerations, none of which holds a string twice; the
\* enumerations that are not writeable, the ones with a repeated string
\* among them, refuse to encode
CodeTableSymmetryWriteable ==
    Enumerated =>
        /\ DecodedDefined => decRet = StrVal(desc.codes[desc.rawValue + 1])
        /\ desc.writeable =>
              \A i \in DOMAIN desc.codes : EncodedCodeAt(i) => encRet = Raw(i - 1)
        /\ (~desc.writeable /\ encRet # NotCalled) => encRet.err # "nil"

\* C11 witness: a writeable enumeration storing raw 2 decoded it to "Party"
\* and encoded that string back to 2
CodeTableSymmetryWitness ==
    /\ Enumerated /\ desc.writeable
    /\ desc.rawValue = 2
    /\ decRet = StrVal("Party")
    /\ encArg = decRet
    /\ encRet = Raw(2)

\* C12: decoding an enumeration is total: for every raw value FromHeatPump
\* returns the string at index raw of the code table, or the text "unknown
\* code: <raw>" when raw is not an index of the table, raw = len(codes)
\* included, and never crashes
DecodeTotal ==
    (Enumerated /\ decRet # NoValue) =>
        /\ decRet # Panic
        /\ decRet = IF desc.rawValue < Len(desc.codes)
                    THEN StrVal(desc.codes[desc.rawValue + 1])
                    ELSE StrVal("unknown code: " \o IntToStr(desc.rawValue))

\* C13: on a writeable hours2 descriptor the decoded value of raw r is
\* 1 + r/2, and encoding a requested number v yields (v - 1) * 2, whatever
\* raw value the descriptor stores
Hours2Codec ==
    (desc.name = "hours2" /\ desc.writeable) =>
        /\ decRet # NoValue => decRet = IntVal(1 + desc.rawValue \div 2)
        /\ (encRet # NotCalled /\ encArg.t = "int") => encRet = Raw((encArg.i - 1) * 2)

\* C14: on a writeable descriptor without code table, custom encoder and
\* factor, ToHeatPump of a requested number returns that number, whatever
\* raw value the descriptor stores
EncodePlainNumber ==
    ( /\ desc.writeable /\ desc.codes = << >> /\ desc.custom = "" /\ desc.factorDen = 0
      /\ encRet # NotCalled /\ encArg.t = "int" ) => encRet = Raw(encArg.i)

\* C15: on a writeable descriptor with a factor and without code table,
\* encoding the value FromHeatPump decoded from the stored raw value returns
\* that raw value
DecodeEncodeRoundTrip ==
    ( /\ desc.writeable /\ desc.factorDen # 0 /\ desc.codes = << >>
      /\ decRet # NoValue /\ encRet # NotCalled /\ encArg = decRet ) =>
        encRet = Raw(desc.rawValue)

\* C16: a read is all or nothing for the register map.  While a read is
\* under way and after it has failed, at whatever point, every descriptor
\* of the map holds the raw and previous raw values it held when the read
\* began; after it has succeeded the previous raw value of every descriptor
\* is the raw value it held when the read began
ReadAllOrNothing ==
    \A s \in Sessions :
        /\ pc[s] # "idle" => pm[s] = pm0[s]
        /\ (Returned(s) /\ ret[s] # "ok") => pm[s] = pm0[s]
        /\ (Returned(s) /\ ret[s] = "ok") =>
              \A i \in DOMAIN pm[s] : pm[s][i].prevRawValue = pm0[s][i].rawValue

\* C16 witness: a read failed on an entry after it had read at least one
\* entry from the reply, on a map that an earlier read had filled
ReadAllOrNothingWitness ==
    \E s \in Sessions :
        /\ Returned(s)
        /\ ret[s] = "errReadEntry"
        /\ Len(rawValues[s]) >= 1
        /\ \E i \in DOMAIN pm0[s] : pm0[s][i].rawValue # 0
        /\ \E i \in DOMAIN pm0[s] : pm0[s][i].rawValue # rawValues[s][1]

====
